---- MODULE Spec2Model ----
(***************************************************************************)
(* Task-configuration validation and projection (onefuzzlib/tasks/config.py)*)
(* and the instance-configuration record (deploylib/configuration.py).      *)
(*                                                                          *)
(* Strings whose characters matter (blob names) are sequences of one-       *)
(* character strings; JSON text is a sequence of tokens; an optional value  *)
(* is the empty sequence (None) or a one-element sequence.                  *)
(***************************************************************************)
EXTENDS Integers, Sequences, FiniteSets, TLC

VARIABLES
    row,        \* the InstanceConfig row keyed (resource_group, resource_group)
    lastWrite,  \* history: per field, the value of the last completed upsert
    clients,    \* the update_* calls in flight, one slot per caller
    pc,         \* position of the function call under check: "ready" | "done"
    input,      \* its argument
    output      \* its result

vars == <<row, lastWrite, clients, pc, input, output>>

storeVars == <<row, lastWrite, clients>>
callVars == <<pc, input, output>>

\* ---------------------------------------------------------------- bounds

NClients == 2
MaxLen == 5
MaxRules == 2
MaxContainers == 2

\* ------------------------------------------------------- generic helpers

None == <<>>
Some(v) == <<v>>

SeqsUpTo(S, n) == UNION {[1..k -> S] : k \in 0..n}

Range(s) == {s[i] : i \in DOMAIN s}

RECURSIVE FilterRange(_, _, _, _)
\* the elements s[lo..hi] that are in keep, in order (halving keeps the nesting shallow)
FilterRange(s, keep, lo, hi) ==
    IF lo > hi THEN <<>>
    ELSE IF lo = hi THEN (IF s[lo] \in keep THEN <<s[lo]>> ELSE <<>>)
    ELSE LET mid == (lo + hi) \div 2
         IN FilterRange(s, keep, lo, mid) \o FilterRange(s, keep, mid + 1, hi)

\* [x for x in s if x in keep]
Filter(s, keep) == FilterRange(s, keep, 1, Len(s))

\* ===================================================== configuration.py

\* ---- NsgRule (classification of one rule string)

Whitespace == {"", " "}
IpAddresses == {"10.0.0.1"}
IpNetworks == {"10.0.0.1", "10.0.0.0/24"}
RuleStrings == {"*", "10.0.0.1", "10.0.0.0/24", "Internet", "", " "}

\* value is None or len(value.strip()) == 0
IsBlank(value) == value \in Whitespace

\* check_rule without the IP-range attempt: a CIDR falls through to the tag default
check_rule_no_network(value) ==
    IF value = "*" THEN FALSE
    ELSE IF value \in IpAddresses THEN FALSE
    ELSE TRUE

\* NsgRule.check_rule: the value of is_tag it leaves (precondition: not blank)
check_rule(value) ==
    IF value = "*" THEN FALSE
    ELSE IF value \in IpAddresses THEN FALSE
    ELSE IF value \in IpNetworks THEN FALSE
    ELSE TRUE

\* NsgRule.__init__: "ValueError" or the rule built
NsgRule(rule) ==
    IF IsBlank(rule) THEN [ok |-> FALSE, rule |-> rule, is_tag |-> FALSE]
    ELSE [ok |-> TRUE, rule |-> rule, is_tag |-> check_rule(rule)]

\* ---- JSON text as a token sequence

json_dumps_list(l) == <<"[">> \o l \o <<"]">>
json_dumps_null == <<"null">>

\* ---- the table store's row and its merge-upsert

Fields == {"proxy_nsg_config", "allowed_aad_tenants", "admins"}
Absent == <<>>

\* table_service.insert_or_replace_entity: the row becomes the entity
insert_or_replace_entity(r, entity) ==
    [f \in Fields |-> IF f \in DOMAIN entity THEN entity[f] ELSE Absent]

\* table_service.insert_or_merge_entity: the entity's fields overwrite, the rest stay
insert_or_merge_entity(r, entity) ==
    [f \in Fields |-> IF f \in DOMAIN entity THEN entity[f] ELSE r[f]]

\* str(x) of a UUID: its canonical text
UuidStr(x) == x.hex

\* [str(x) for x in uuids]
UuidStrs(uuids) == [i \in DOMAIN uuids |-> UuidStr(uuids[i])]

\* the entity update_allowed_aad_tenants upserts
tenants_entity(tenants) ==
    [allowed_aad_tenants |-> json_dumps_list(UuidStrs(tenants))]

\* the entity update_admins upserts (an empty list is stored as null)
admins_entity(admins) ==
    [admins |-> IF Len(admins) > 0
                THEN json_dumps_list(UuidStrs(admins))
                ELSE json_dumps_null]

\* [x.rule for x in rules]
RuleStrs(rules) == [i \in DOMAIN rules |-> rules[i].rule]

\* the entity update_nsg upserts, with the two filters exchanged
nsg_entity_swapped(allowed_rules) ==
    LET tags_as_str ==
            RuleStrs(Filter(allowed_rules, {x \in Range(allowed_rules) : ~x.is_tag}))
        ips_as_str ==
            RuleStrs(Filter(allowed_rules, {x \in Range(allowed_rules) : x.is_tag}))
    IN [proxy_nsg_config |->
            <<"{", "allowed_service_tags", ":">> \o json_dumps_list(tags_as_str)
            \o <<",", "allowed_ips", ":">> \o json_dumps_list(ips_as_str) \o <<"}">>]

\* the entity update_nsg upserts
nsg_entity(allowed_rules) ==
    LET tags_as_str ==
            RuleStrs(Filter(allowed_rules, {x \in Range(allowed_rules) : x.is_tag}))
        ips_as_str ==
            RuleStrs(Filter(allowed_rules, {x \in Range(allowed_rules) : ~x.is_tag}))
    IN [proxy_nsg_config |->
            <<"{", "allowed_service_tags", ":">> \o json_dumps_list(tags_as_str)
            \o <<",", "allowed_ips", ":">> \o json_dumps_list(ips_as_str) \o <<"}">>]

\* the upsert of update_allowed_aad_tenants / update_admins / update_nsg with the
\* table's merge replaced by a whole-row replace
StoreUpsert_replace(r, entity) == insert_or_replace_entity(r, entity)

\* the single store call every update_* function makes
StoreUpsert(r, entity) == insert_or_merge_entity(r, entity)

\* ---- arguments the callers pass

Uuids == {[hex |-> "u1"], [hex |-> "u2"]}
UuidLists == {<<>>, <<[hex |-> "u1"]>>, <<[hex |-> "u2"], [hex |-> "u1"]>>}
StoreRuleLists ==
    {<<>>, <<NsgRule("*")>>, <<NsgRule("Internet"), NsgRule("10.0.0.1")>>}

\* the one field each update function is documented to write
OwnField(op) ==
    CASE op = "update_nsg" -> "proxy_nsg_config"
      [] op = "update_allowed_aad_tenants" -> "allowed_aad_tenants"
      [] op = "update_admins" -> "admins"

Idle == [op |-> "idle", entity |-> [none |-> <<>>]]

InitStore ==
    /\ row = [f \in Fields |-> Absent]
    /\ lastWrite = [f \in Fields |-> Absent]
    /\ clients = [c \in 1..NClients |-> Idle]
    /\ pc = "done"
    /\ input = <<>>
    /\ output = <<>>

\* a caller enters update_nsg: the entity is built from its argument
update_nsg_begin(c) ==
    /\ clients[c].op = "idle"
    /\ \E rules \in StoreRuleLists :
          clients' = [clients EXCEPT ![c] =
                         [op |-> "update_nsg", entity |-> nsg_entity(rules)]]
    /\ UNCHANGED <<row, lastWrite, callVars>>

update_allowed_aad_tenants_begin(c) ==
    /\ clients[c].op = "idle"
    /\ \E tenants \in UuidLists :
          clients' = [clients EXCEPT ![c] =
                         [op |-> "update_allowed_aad_tenants",
                          entity |-> tenants_entity(tenants)]]
    /\ UNCHANGED <<row, lastWrite, callVars>>

update_admins_begin(c) ==
    /\ clients[c].op = "idle"
    /\ \E admins \in UuidLists :
          clients' = [clients EXCEPT ![c] =
                         [op |-> "update_admins", entity |-> admins_entity(admins)]]
    /\ UNCHANGED <<row, lastWrite, callVars>>

\* the store applies the caller's upsert atomically and the call returns
upsert_complete(c) ==
    /\ clients[c].op # "idle"
    /\ row' = StoreUpsert(row, clients[c].entity)
    /\ lastWrite' = [lastWrite EXCEPT ![OwnField(clients[c].op)] =
                        clients[c].entity[OwnField(clients[c].op)]]
    /\ clients' = [clients EXCEPT ![c] = Idle]
    /\ UNCHANGED callVars

NextStore ==
    \E c \in 1..NClients :
        \/ update_nsg_begin(c)
        \/ update_allowed_aad_tenants_begin(c)
        \/ update_admins_begin(c)
        \/ upsert_complete(c)

SpecStore == InitStore /\ [][NextStore]_vars

\* C1: whatever the interleaving of update_nsg, update_allowed_aad_tenants and
\* update_admins calls, every field of the row holds the value written by the last
\* completed call for that field: an upsert changes its own field only, so no update
\* is lost to a concurrent update of another field.
C1_FieldsIndependent ==
    \A f \in Fields : row[f] = lastWrite[f]

\* all three fields have been written while a call to update_nsg is still in flight
C1_Witness ==
    /\ \A f \in Fields : row[f] # Absent
    /\ \E c \in 1..NClients : clients[c].op = "update_nsg"
    /\ \E c \in 1..NClients : clients[c].op = "idle"

\* ---- Config: the raw JSON value and its parse

\* A JSON value at a key: whether the key is there, the value's type, and its content
\* (the text of a string, the elements of a list).
Missing == [present |-> FALSE, kind |-> "none", s |-> "", items |-> <<>>]
JStr(text) == [present |-> TRUE, kind |-> "str", s |-> text, items |-> <<>>]
JInt == [present |-> TRUE, kind |-> "int", s |-> "", items |-> <<>>]
JList(elems) == [present |-> TRUE, kind |-> "list", s |-> "", items |-> elems]

\* list elements: a string or a number
EStr(text) == [kind |-> "str", s |-> text]
EInt == [kind |-> "int", s |-> "1"]

ValidUuids == {"1b4e28ba-2fa1-11d2-883f-0016d3cca427"}

\* isinstance(x, str) for all x in items
AllStr(items) == \A i \in DOMAIN items : items[i].kind = "str"

NoConfig ==
    [ok |-> FALSE, allowed_ips |-> <<>>, allowed_service_tags |-> <<>>,
     cli_client_id |-> "", tenant_id |-> "", tenant_domain |-> "",
     multi_tenant_domain |-> ""]

TopKeys == {"proxy_nsg_config", "cli_client_id", "tenant_id", "tenant_domain",
            "multi_tenant_domain"}

\* Config.parse_nsg_json: TRUE when it returns, FALSE when it raises
parse_nsg_json(config) ==
    LET proxy_config == config.proxy_nsg_config
        ips == proxy_config.allowed_ips
        tags == proxy_config.allowed_service_tags
    IN IF config.kind # "dict" THEN FALSE
       ELSE IF \A k \in TopKeys : ~config[k].present THEN FALSE
       ELSE IF ~proxy_config.present THEN FALSE
       ELSE IF proxy_config.kind # "dict" THEN FALSE
       ELSE IF ~ips.present /\ ~tags.present THEN FALSE
       ELSE IF ~ips.present \/ ~tags.present THEN FALSE
       ELSE IF ips.kind # "list" \/ tags.kind # "list" THEN FALSE
       ELSE IF \/ (Len(ips.items) # 0 /\ ~AllStr(ips.items))
               \/ (Len(ips.items) # 0 /\ ~AllStr(tags.items))
            THEN FALSE
       ELSE TRUE

\* Config.parse_endpoint_json: TRUE when it returns, FALSE when it raises
parse_endpoint_json(config) ==
    IF ~config.cli_client_id.present THEN FALSE
    ELSE IF config.cli_client_id.kind # "str" \/ config.cli_client_id.s = "" THEN FALSE
    ELSE IF config.cli_client_id.s \notin ValidUuids THEN FALSE
    ELSE IF ~config.tenant_id.present THEN FALSE
    ELSE IF config.tenant_id.kind # "str" \/ config.tenant_id.s = "" THEN FALSE
    ELSE IF ~config.tenant_domain.present THEN FALSE
    ELSE IF config.tenant_domain.kind # "str" \/ config.tenant_domain.s = "" THEN FALSE
    ELSE IF ~config.multi_tenant_domain.present THEN FALSE
    ELSE IF config.multi_tenant_domain.kind # "str" THEN FALSE
    ELSE TRUE

\* Config.__init__: the object built, or NoConfig when either parse raises
Config(config) ==
    IF ~parse_nsg_json(config) THEN NoConfig
    ELSE IF ~parse_endpoint_json(config) THEN NoConfig
    ELSE [ok |-> TRUE,
          allowed_ips |-> config.proxy_nsg_config.allowed_ips.items,
          allowed_service_tags |-> config.proxy_nsg_config.allowed_service_tags.items,
          cli_client_id |-> config.cli_client_id.s,
          tenant_id |-> config.tenant_id.s,
          tenant_domain |-> config.tenant_domain.s,
          multi_tenant_domain |-> config.multi_tenant_domain.s]

\* ---- the raw values handed to Config

ListValues == {Missing, JStr("10.0.0.1")}
              \cup {JList(l) : l \in SeqsUpTo({EStr("10.0.0.1"), EInt}, MaxRules)}

ProxyValues ==
    {[present |-> FALSE, kind |-> "none", allowed_ips |-> Missing,
      allowed_service_tags |-> Missing],
     [present |-> TRUE, kind |-> "str", allowed_ips |-> Missing,
      allowed_service_tags |-> Missing]}
    \cup {[present |-> TRUE, kind |-> "dict", allowed_ips |-> i,
           allowed_service_tags |-> t] : i \in ListValues, t \in ListValues}

RequiredStrValues == {Missing, JInt, JStr(""), JStr("contoso")}

ClientIdValues ==
    {Missing, JInt, JStr(""), JStr("not-a-uuid"),
     JStr("1b4e28ba-2fa1-11d2-883f-0016d3cca427")}

RawConfigs ==
    [kind : {"dict", "list"},
     proxy_nsg_config : ProxyValues,
     cli_client_id : ClientIdValues,
     tenant_id : RequiredStrValues,
     tenant_domain : RequiredStrValues,
     multi_tenant_domain : RequiredStrValues]

InitConfig ==
    /\ pc = "ready"
    /\ input \in {r \in RawConfigs :
                    r.kind = "list" =>
                        /\ ~r.proxy_nsg_config.present
                        /\ \A k \in TopKeys \ {"proxy_nsg_config"} : ~r[k].present}
    /\ output = None
    /\ row = [f \in Fields |-> Absent]
    /\ lastWrite = [f \in Fields |-> Absent]
    /\ clients = [c \in 1..NClients |-> Idle]

Config_call ==
    /\ pc = "ready"
    /\ output' = Config(input)
    /\ pc' = "done"
    /\ UNCHANGED <<input, storeVars>>

SpecConfig == InitConfig /\ [][Config_call]_vars

\* C6: Config(raw) succeeds exactly when raw is a non-empty mapping, proxy_nsg_config
\* is a non-empty mapping holding allowed_ips and allowed_service_tags, both lists
\* whose elements are all strings, cli_client_id is a non-empty string that is a
\* valid UUID, tenant_id and tenant_domain are non-empty strings and
\* multi_tenant_domain is a string; otherwise no Config is produced.
C6_ClaimedAccept(raw) ==
    /\ raw.kind = "dict"
    /\ raw.proxy_nsg_config.present /\ raw.proxy_nsg_config.kind = "dict"
    /\ \A k \in {"allowed_ips", "allowed_service_tags"} :
          /\ raw.proxy_nsg_config[k].present
          /\ raw.proxy_nsg_config[k].kind = "list"
          /\ \A i \in DOMAIN raw.proxy_nsg_config[k].items :
                raw.proxy_nsg_config[k].items[i].kind = "str"
    /\ raw.cli_client_id.present /\ raw.cli_client_id.kind = "str"
    /\ raw.cli_client_id.s # "" /\ raw.cli_client_id.s \in ValidUuids
    /\ \A k \in {"tenant_id", "tenant_domain"} :
          raw[k].present /\ raw[k].kind = "str" /\ raw[k].s # ""
    /\ raw.multi_tenant_domain.present /\ raw.multi_tenant_domain.kind = "str"

C6_AcceptExactlyWhen ==
    pc = "done" /\ input \in RawConfigs => (output.ok <=> C6_ClaimedAccept(input))

\* ---- parse_rules

\* parse_rules: the NsgRule list, or the ValueError raised for an allowed_ips entry
\* ("ips") or an allowed_service_tags entry ("tags") that NsgRule refuses
parse_rules(proxy_config) ==
    LET allowed_ips == proxy_config.allowed_ips
        allowed_service_tags == proxy_config.allowed_service_tags
        Built(l) == [i \in DOMAIN l |-> [rule |-> NsgRule(l[i]).rule,
                                         is_tag |-> NsgRule(l[i]).is_tag]]
    IN IF "*" \in Range(allowed_ips)
       THEN [ok |-> TRUE, error |-> "", rules |-> <<[rule |-> "*", is_tag |-> FALSE]>>]
       ELSE IF Len(allowed_ips) + Len(allowed_service_tags) = 0
       THEN [ok |-> TRUE, error |-> "", rules |-> <<>>]
       ELSE IF \E i \in DOMAIN allowed_ips : ~NsgRule(allowed_ips[i]).ok
       THEN [ok |-> FALSE, error |-> "ips", rules |-> <<>>]
       ELSE IF \E i \in DOMAIN allowed_service_tags : ~NsgRule(allowed_service_tags[i]).ok
       THEN [ok |-> FALSE, error |-> "tags", rules |-> <<>>]
       ELSE [ok |-> TRUE, error |-> "",
             rules |-> Built(allowed_ips) \o Built(allowed_service_tags)]

InitRules ==
    /\ pc = "ready"
    /\ input \in [allowed_ips : SeqsUpTo(RuleStrings, MaxRules),
                  allowed_service_tags : SeqsUpTo(RuleStrings, MaxRules)]
    /\ output = None
    /\ row = [f \in Fields |-> Absent]
    /\ lastWrite = [f \in Fields |-> Absent]
    /\ clients = [c \in 1..NClients |-> Idle]

parse_rules_call ==
    /\ pc = "ready"
    /\ output' = parse_rules(input)
    /\ pc' = "done"
    /\ UNCHANGED <<input, storeVars>>

SpecRules == InitRules /\ [][parse_rules_call]_vars

\* the rule list the claim describes for lists without a "*" among allowed_ips
C7_OnePerEntry(cfg) ==
    LET all == cfg.allowed_ips \o cfg.allowed_service_tags
    IN [i \in DOMAIN all |->
           [rule |-> all[i],
            is_tag |-> all[i] # "*" /\ all[i] \notin IpAddresses
                       /\ all[i] \notin IpNetworks]]

C7_HasBlank(cfg) ==
    \E x \in Range(cfg.allowed_ips) \cup Range(cfg.allowed_service_tags) :
        x \in {"", " "}

\* C7 as stated: parse_rules returns one wildcard rule when allowed_ips holds "*", the
\* empty list when both lists are empty, and otherwise one rule per entry,
\* allowed_ips first, each marked a tag exactly when it is not "*", an IP or a CIDR.
C7_RulesAsClaimed ==
    pc = "done" =>
        /\ output.ok
        /\ output.rules =
              IF "*" \in Range(input.allowed_ips)
              THEN <<[rule |-> "*", is_tag |-> FALSE]>>
              ELSE C7_OnePerEntry(input)

\* C7 as amended: as stated, except that without a "*" among allowed_ips an entry that
\* is empty or only whitespace makes parse_rules raise ValueError and return no list.
C7_RulesOrValueError ==
    pc = "done" =>
        IF "*" \in Range(input.allowed_ips)
        THEN output.ok /\ output.rules = <<[rule |-> "*", is_tag |-> FALSE]>>
        ELSE IF C7_HasBlank(input)
        THEN ~output.ok
        ELSE output.ok /\ output.rules = C7_OnePerEntry(input)

\* a CIDR under allowed_ips and a tag under allowed_service_tags give two rules
C7_Witness ==
    /\ pc = "done"
    /\ input.allowed_ips = <<"10.0.0.0/24">>
    /\ input.allowed_service_tags = <<"Internet">>
    /\ output.ok /\ Len(output.rules) = 2
    /\ ~output.rules[1].is_tag /\ output.rules[2].is_tag

\* ========================================================= tasks/config.py

\* ---- is_valid_blob_name

MIN_LENGTH == 1
MAX_LENGTH == 1024
MAX_PATH_SEGMENTS == 254

BlobChars == {"a", ".", "/", " "}
IsSpace(ch) == ch = " "

\* how many elements of s, from its start, are ch before the first that is not
LeadingCount(s, ch) ==
    CHOOSE n \in 0..Len(s) :
        /\ \A i \in 1..n : s[i] = ch
        /\ n = Len(s) \/ s[n + 1] # ch

\* how many elements of s, from its end, are ch
TrailingCount(s, ch) ==
    CHOOSE n \in 0..Len(s) :
        /\ \A i \in (Len(s) - n + 1)..Len(s) : s[i] = ch
        /\ n = Len(s) \/ s[Len(s) - n] # ch

\* str.strip(): leading and trailing whitespace removed
Strip(s) ==
    LET l == LeadingCount(s, " ")
    IN IF l = Len(s) THEN <<>>
       ELSE SubSeq(s, l + 1, Len(s) - TrailingCount(s, " "))

RECURSIVE SplitRange(_, _, _)
\* the '/'-delimited segments of s[lo..hi]
SplitRange(s, lo, hi) ==
    IF lo > hi THEN << <<>> >>
    ELSE IF lo = hi THEN (IF s[lo] = "/" THEN << <<>>, <<>> >> ELSE << <<s[lo]>> >>)
    ELSE LET mid == (lo + hi) \div 2
             l == SplitRange(s, lo, mid)
             r == SplitRange(s, mid + 1, hi)
         IN SubSeq(l, 1, Len(l) - 1) \o << l[Len(l)] \o r[1] >> \o Tail(r)

\* str.split("/")
Split(s) == SplitRange(s, 1, Len(s))

RECURSIVE JoinRange(_, _, _)
JoinRange(parts, lo, hi) ==
    IF lo > hi THEN <<>>
    ELSE IF lo = hi THEN parts[lo]
    ELSE LET mid == (lo + hi) \div 2
         IN JoinRange(parts, lo, mid) \o <<"/">> \o JoinRange(parts, mid + 1, hi)

\* "/".join(parts)
Join(parts) == JoinRange(parts, 1, Len(parts))

\* PurePosixPath: the root ("", "/" or, for exactly two leading slashes, "//")
PathRoot(s) ==
    LET n == LeadingCount(s, "/")
    IN IF n = 0 THEN <<>> ELSE IF n = 2 THEN <<"/", "/">> ELSE <<"/">>

\* PurePosixPath(s).parts: the root, then the segments that are neither empty nor "."
PathParts(s) ==
    LET rel == SubSeq(s, LeadingCount(s, "/") + 1, Len(s))
        segs == Split(rel)
        kept == Filter(segs, Range(segs) \ {<<>>, <<".">>})
    IN (IF PathRoot(s) # <<>> THEN <<PathRoot(s)>> ELSE <<>>) \o kept

\* PurePosixPath(s).as_posix()
as_posix(s) ==
    LET parts == PathParts(s)
    IN IF PathRoot(s) # <<>> THEN PathRoot(s) \o Join(Tail(parts))
       ELSE IF parts = <<>> THEN <<".">>
       ELSE Join(parts)

EndsWithDot(part) == part # <<>> /\ part[Len(part)] = "."

is_valid_blob_name(blob_name) ==
    LET length == Len(blob_name)
        parts == PathParts(blob_name)
    IN IF blob_name # Strip(blob_name) THEN FALSE
       ELSE IF length < MIN_LENGTH THEN FALSE
       ELSE IF length > MAX_LENGTH THEN FALSE
       ELSE IF Len(parts) > MAX_PATH_SEGMENTS THEN FALSE
       ELSE IF \E i \in DOMAIN parts : EndsWithDot(parts[i]) THEN FALSE
       ELSE IF PathRoot(blob_name) # <<>> THEN FALSE
       ELSE IF \E i \in DOMAIN parts : parts[i] = <<".">> THEN FALSE
       ELSE IF \E i \in DOMAIN parts : parts[i] = <<".", ".">> THEN FALSE
       ELSE blob_name = as_posix(blob_name)

\* the names submitted: every short name, and names at the length and segment limits
LongNames ==
    { [i \in 1..n |-> "a"] : n \in {MAX_LENGTH, MAX_LENGTH + 1} }
    \cup { [i \in 1..(2 * n - 1) |-> IF i % 2 = 1 THEN "a" ELSE "/"] :
             n \in {MAX_PATH_SEGMENTS, MAX_PATH_SEGMENTS + 1} }

BlobNames == SeqsUpTo(BlobChars, MaxLen) \cup LongNames

InitBlob ==
    /\ pc = "ready"
    /\ input \in BlobNames
    /\ output = None
    /\ row = [f \in Fields |-> Absent]
    /\ lastWrite = [f \in Fields |-> Absent]
    /\ clients = [c \in 1..NClients |-> Idle]

is_valid_blob_name_call ==
    /\ pc = "ready"
    /\ output' = is_valid_blob_name(input)
    /\ pc' = "done"
    /\ UNCHANGED <<input, storeVars>>

SpecBlob == InitBlob /\ [][is_valid_blob_name_call]_vars

\* C5: is_valid_blob_name(s) is true exactly when s has 1..1024 characters, no
\* leading or trailing whitespace, at most 254 '/'-delimited segments, no segment
\* ending with '.', no leading '/', no segment equal to '.' or '..', and s equal to
\* its normalized form.
C5_ClaimedValid(s) ==
    LET segs == Split(s)
    IN /\ 1 <= Len(s) /\ Len(s) <= 1024
       /\ s # <<>> => ~IsSpace(s[1]) /\ ~IsSpace(s[Len(s)])
       /\ Len(segs) <= 254
       /\ \A i \in DOMAIN segs : ~EndsWithDot(segs[i])
       /\ s # <<>> => s[1] # "/"
       /\ \A i \in DOMAIN segs : segs[i] # <<".">> /\ segs[i] # <<".", ".">>
       /\ s = as_posix(s)

C5_ValidExactlyWhen ==
    pc = "done" /\ input \in BlobNames => output = C5_ClaimedValid(input)

\* ---- check_config

ContainerTypes == {"setup", "tools", "crashes"}
ContainerNames == {"c1", "c2"}
KnownPools == {"pool1"}

\* strings that contain the substring "{input}"
UsesInputStrings == {"{input}", "--file={input}"}

\* the prefixes check_config strips from generator_exe
tools_paths == <<"{tools_dir}/", "{tools_dir}\\">>

Ok == [kind |-> "ok", msg |-> "", arg |-> ""]
TaskConfigError(msg, arg) == [kind |-> "TaskConfigError", msg |-> msg, arg |-> arg]
\* [...][0] on an empty list
IndexError == [kind |-> "IndexError", msg |-> "list index out of range", arg |-> ""]

\* the record of one call to a collaborator
Call(fn, container, path) == [fn |-> fn, container |-> container, path |-> path]

\* check_val with the AtLeast and AtMost comparisons exchanged
check_val_swapped(compare, expected, actual) ==
    CASE compare = "Equal" -> expected = actual
      [] compare = "AtLeast" -> expected >= actual
      [] compare = "AtMost" -> expected <= actual

check_val(compare, expected, actual) ==
    CASE compare = "Equal" -> expected = actual
      [] compare = "AtLeast" -> expected <= actual
      [] compare = "AtMost" -> expected >= actual

\* the submitted containers of one type, in submission order
ContainersOfType(containers, type) ==
    Filter(containers, {x \in Range(containers) : x.type = type})

\* check_container: TRUE when it returns, FALSE when it raises
check_container(compare, expected, container_type, containers) ==
    check_val(compare, expected, Len(ContainersOfType(containers, container_type)))

RECURSIVE ExistsLoop(_, _, _, _)
\* the first loop of check_containers from container i on: the container found
\* missing, if any, and the container_exists calls made (one per name not yet checked)
ExistsLoop(containers, i, checked, world) ==
    IF i > Len(containers) THEN [missing |-> None, calls |-> <<>>]
    ELSE IF containers[i].name \in checked
    THEN ExistsLoop(containers, i + 1, checked, world)
    ELSE IF containers[i].name \notin world.containers
    THEN [missing |-> Some(containers[i].name),
          calls |-> <<Call("container_exists", containers[i].name, <<>>)>>]
    ELSE LET rest == ExistsLoop(containers, i + 1,
                                checked \cup {containers[i].name}, world)
         IN [missing |-> rest.missing,
             calls |-> <<Call("container_exists", containers[i].name, <<>>)>>
                       \o rest.calls]

DefinedTypes(definition) ==
    {definition.containers[i].type : i \in DOMAIN definition.containers}

check_containers(definition, config, world) ==
    LET loop == ExistsLoop(config.containers, 1, {}, world)
        defs == definition.containers
        badDefs == {i \in DOMAIN defs :
                      ~check_container(defs[i].compare, defs[i].value, defs[i].type,
                                       config.containers)}
        firstBad == CHOOSE i \in badDefs : \A j \in badDefs : i <= j
        \* the keys of the containers dict keep the order of first appearance
        badTypes == {i \in DOMAIN config.containers :
                       config.containers[i].type \notin DefinedTypes(definition)}
        firstType == CHOOSE i \in badTypes : \A j \in badTypes : i <= j
    IN IF loop.missing # None
       THEN [err |-> TaskConfigError("missing container", loop.missing[1]),
             calls |-> loop.calls]
       ELSE IF badDefs # {}
       THEN [err |-> TaskConfigError("container type: expected", defs[firstBad].type),
             calls |-> loop.calls]
       ELSE IF badTypes # {}
       THEN [err |-> TaskConfigError("unsupported container type for this task",
                                     config.containers[firstType].type),
             calls |-> loop.calls]
       ELSE IF definition.monitor_queue # None
               /\ definition.monitor_queue[1] \notin DefinedTypes(definition)
       THEN [err |-> TaskConfigError("unable to monitor container type",
                                     definition.monitor_queue[1]),
             calls |-> loop.calls]
       ELSE [err |-> Ok, calls |-> loop.calls]

\* the store's answer: world.blobs holds the (container, path) pairs that exist
blob_exists(container, path, world) == <<container, path>> \in world.blobs

check_target_exe(config, definition, world) ==
    LET setup == ContainersOfType(config.containers, "setup")
    IN IF config.task.target_exe = None
       THEN IF "target_exe" \in definition.features
            THEN [err |-> TaskConfigError("missing target_exe", ""), calls |-> <<>>]
            ELSE [err |-> Ok, calls |-> <<>>]
       ELSE IF ~is_valid_blob_name(config.task.target_exe[1])
       THEN [err |-> TaskConfigError("target_exe must be a canonicalized relative path",
                                     ""),
             calls |-> <<>>]
       ELSE IF setup = <<>> THEN [err |-> IndexError, calls |-> <<>>]
       ELSE IF ~blob_exists(setup[1].name, config.task.target_exe[1], world)
       THEN \* a missing blob is only logged
            [err |-> Ok,
             calls |-> <<Call("blob_exists", setup[1].name, config.task.target_exe[1]),
                         Call("LOGGER.warning", setup[1].name,
                              config.task.target_exe[1])>>]
       ELSE [err |-> Ok,
             calls |-> <<Call("blob_exists", setup[1].name, config.task.target_exe[1])>>]

target_uses_input(config) ==
    \/ /\ config.task.target_options # None
       /\ \E i \in DOMAIN config.task.target_options[1] :
             config.task.target_options[1][i] \in UsesInputStrings
    \/ /\ config.task.target_env # None
       /\ \E i \in DOMAIN config.task.target_env[1] :
             config.task.target_env[1][i] \in UsesInputStrings

\* the generator_exe block of check_config
check_generator_exe(config, world) ==
    LET tools == ContainersOfType(config.containers, "tools")
        exe == config.task.generator_exe
        stripped == \E i \in DOMAIN tools_paths : exe[1].prefix = tools_paths[i]
        \* generator_exe.replace(tool_path, ""): every occurrence is removed
        generator == Filter(exe[1].rest, Range(exe[1].rest) \ {exe[1].prefix})
    IN IF tools = <<>> THEN [err |-> IndexError, calls |-> <<>>]
       ELSE IF exe = None \/ (exe[1].prefix = "" /\ exe[1].rest = <<>>)
       THEN [err |-> TaskConfigError("generator_exe is not defined", ""),
             calls |-> <<>>]
       ELSE IF ~stripped THEN [err |-> Ok, calls |-> <<>>]
       ELSE IF ~blob_exists(tools[1].name, generator, world)
       THEN [err |-> TaskConfigError("generator_exe does not exist in the tools container",
                                     tools[1].name),
             calls |-> <<Call("blob_exists", tools[1].name, generator)>>]
       ELSE [err |-> Ok, calls |-> <<Call("blob_exists", tools[1].name, generator)>>]

Passed(calls) == [err |-> Ok, calls |-> calls]
Failed(msg, arg, calls) == [err |-> TaskConfigError(msg, arg), calls |-> calls]

\* the order of the checks in the body of check_config, with vm tested second,
\* together with the vm-and-pool test
check_steps_vm_first ==
    <<"task_type", "vm_and_pool", "vm", "check_containers", "supervisor_exe",
      "target_must_use_input", "pool", "vm_count", "pool_lookup",
      "check_target_exe", "generator_exe", "stats_file">>

\* the order of the checks in the body of check_config, with the pool looked up
\* before its count is compared
check_steps_lookup_first ==
    <<"task_type", "vm_and_pool", "check_containers", "supervisor_exe",
      "target_must_use_input", "vm", "pool", "pool_lookup", "vm_count",
      "check_target_exe", "generator_exe", "stats_file">>

\* the order of the checks in the body of check_config, without the pool lookup
check_steps_no_lookup ==
    <<"task_type", "vm_and_pool", "check_containers", "supervisor_exe",
      "target_must_use_input", "vm", "pool", "vm_count",
      "check_target_exe", "generator_exe", "stats_file">>

\* the order of the checks in the body of check_config
check_steps ==
    <<"task_type", "vm_and_pool", "check_containers", "supervisor_exe",
      "target_must_use_input", "vm", "pool", "vm_count", "pool_lookup",
      "check_target_exe", "generator_exe", "stats_file">>

\* one check of check_config: whether it raises, and the collaborator calls it makes
check_step(step, in) ==
    LET config == in.config
        definition == in.definition
        world == in.world
    IN CASE step = "task_type" ->
              IF ~in.registered THEN Failed("unsupported task type", "", <<>>)
              ELSE Passed(<<>>)
         [] step = "vm_and_pool" ->
              IF config.vm /\ config.pool # None
              THEN Failed("either the vm or pool must be specified, but not both", "",
                          <<>>)
              ELSE Passed(<<>>)
         [] step = "check_containers" -> check_containers(definition, config, world)
         [] step = "supervisor_exe" ->
              IF "supervisor_exe" \in definition.features
                 /\ (config.task.supervisor_exe = None
                     \/ config.task.supervisor_exe = Some(""))
              THEN Failed("missing supervisor_exe", "", <<>>)
              ELSE Passed(<<>>)
         [] step = "target_must_use_input" ->
              IF "target_must_use_input" \in definition.features
                 /\ ~target_uses_input(config)
              THEN Failed("{input} must be used in target_env or target_options", "",
                          <<>>)
              ELSE Passed(<<>>)
         [] step = "vm" ->
              IF config.vm
              THEN Failed("specifying task config vm is no longer supported", "", <<>>)
              ELSE Passed(<<>>)
         [] step = "pool" ->
              IF config.pool = None THEN Failed("pool must be specified", "", <<>>)
              ELSE Passed(<<>>)
         [] step = "vm_count" ->
              IF ~check_val(definition.vm.compare, definition.vm.value,
                            config.pool[1].count)
              THEN Failed("invalid vm count", "", <<>>)
              ELSE Passed(<<>>)
         [] step = "pool_lookup" ->
              IF config.pool[1].pool_name \notin KnownPools
              THEN Failed("invalid pool", config.pool[1].pool_name,
                          <<Call("Pool.get_by_name", config.pool[1].pool_name, <<>>)>>)
              ELSE Passed(<<Call("Pool.get_by_name", config.pool[1].pool_name, <<>>)>>)
         [] step = "check_target_exe" -> check_target_exe(config, definition, world)
         [] step = "generator_exe" ->
              IF "generator_exe" \in definition.features
              THEN check_generator_exe(config, world)
              ELSE Passed(<<>>)
         [] step = "stats_file" ->
              IF "stats_file" \in definition.features
                 /\ config.task.stats_file # None /\ config.task.stats_format = None
              THEN Failed("using a stats_file requires a stats_format", "", <<>>)
              ELSE Passed(<<>>)

RECURSIVE RunSteps(_, _, _, _)
\* the checks from step i on, run in order until one raises
RunSteps(steps, i, in, calls) ==
    IF i > Len(steps)
    THEN [kind |-> "ok", msg |-> "", arg |-> "", calls |-> calls]
    ELSE LET r == check_step(steps[i], in)
         IN IF r.err # Ok
            THEN [kind |-> r.err.kind, msg |-> r.err.msg, arg |-> r.err.arg,
                  calls |-> calls \o r.calls]
            ELSE RunSteps(steps, i + 1, in, calls \o r.calls)

\* check_config(config), TASK_DEFINITIONS holding in.definition for the task type when
\* in.registered, and the collaborators answering from in.world
check_config(in) == RunSteps(check_steps, 1, in, <<>>)

\* ---- the task definitions and the submissions handed to check_config

CDef(type, compare, value, permissions) ==
    [type |-> type, compare |-> compare, value |-> value, permissions |-> permissions]

CheckDefinitions ==
    { [containers |-> <<CDef("setup", "Equal", 1, {"Read", "List"}),
                        CDef("crashes", "AtMost", 1, {"Write"})>>,
       features |-> {"supervisor_exe", "target_must_use_input", "target_exe_optional",
                     "stats_file"},
       vm |-> [compare |-> "AtLeast", value |-> 2],
       monitor_queue |-> None],
      [containers |-> <<CDef("setup", "Equal", 1, {"Read", "List"}),
                        CDef("tools", "AtLeast", 1, {"Read", "List"})>>,
       features |-> {"generator_exe", "target_exe"},
       vm |-> [compare |-> "Equal", value |-> 1],
       monitor_queue |-> None],
      [containers |-> <<CDef("setup", "Equal", 1, {"Read", "List"}),
                        CDef("crashes", "AtLeast", 1, {"Read", "List"})>>,
       features |-> {"target_exe", "stats_file"},
       vm |-> [compare |-> "AtMost", value |-> 1],
       monitor_queue |-> Some("crashes")],
      [containers |-> <<CDef("setup", "AtMost", 1, {"Read", "List"}),
                        CDef("tools", "AtMost", 1, {"Read", "List"})>>,
       features |-> {"generator_exe", "target_exe_optional"},
       vm |-> [compare |-> "AtLeast", value |-> 1],
       monitor_queue |-> None],
      [containers |-> <<CDef("setup", "Equal", 1, {"Read", "List"})>>,
       features |-> {},
       vm |-> [compare |-> "AtLeast", value |-> 1],
       monitor_queue |-> Some("crashes")] }

NoDefinition ==
    [containers |-> <<>>, features |-> {},
     vm |-> [compare |-> "Equal", value |-> 1], monitor_queue |-> None]

\* the task type submitted: registered with one of the definitions, or not registered
TypeLookups ==
    {[registered |-> TRUE, definition |-> d] : d \in CheckDefinitions}
    \cup {[registered |-> FALSE, definition |-> NoDefinition]}

Container(name, type) == [name |-> name, type |-> type]

\* the number of workers of a pool the registry knows
PoolWorkers == {1, 2}

Pools ==
    {None} \cup {Some([count |-> n, pool_name |-> p]) :
                    n \in {1, 2}, p \in {"pool1", "nopool"}}

GeneratorExes ==
    {None, Some([prefix |-> "", rest |-> <<>>]), Some([prefix |-> "", rest |-> <<"a">>]),
     Some([prefix |-> "{tools_dir}/", rest |-> <<"a">>]),
     Some([prefix |-> "{tools_dir}\\", rest |-> <<"a">>]),
     Some([prefix |-> "{tools_dir}/", rest |-> <<"a", "{tools_dir}/", "a">>])}

TargetExes == {None, Some(<<"a">>), Some(<<".", "/", "a">>)}

\* what the store holds: (container, path) pairs
BlobStores ==
    SUBSET {<<"c1", <<"a">>>>, <<"c2", <<"a">>>>} \cup {{<<"c2", <<"a", "a">>>>}}

BaseTask ==
    [supervisor_exe |-> Some("sup"), target_exe |-> Some(<<"a">>),
     target_options |-> Some(<<"{input}">>), target_env |-> None,
     generator_exe |-> Some([prefix |-> "", rest |-> <<"a">>]),
     stats_file |-> None, stats_format |-> None]

\* submissions that vary the containers, their existence, vm and pool
ContainerSubmissions ==
    { [registered |-> t.registered, definition |-> t.definition,
       config |-> [vm |-> vm, pool |-> pool, containers |-> cs,
                   task |-> [BaseTask EXCEPT !.supervisor_exe = sup,
                                             !.target_options = opts]],
       world |-> [containers |-> ex, blobs |-> {<<c, <<"a">>>> : c \in ContainerNames},
                 pool_workers |-> w]] :
        t \in TypeLookups, vm \in BOOLEAN,
        pool \in {None, Some([count |-> 1, pool_name |-> "pool1"])},
        cs \in SeqsUpTo([name : ContainerNames, type : ContainerTypes], MaxContainers),
        ex \in {ContainerNames, {"c1"}, {}},
        sup \in {None, Some("sup")},
        opts \in {None, Some(<<"{input}">>)}, w \in PoolWorkers }

\* submissions that vary the pool and the task body
TaskSubmissions ==
    { [registered |-> t.registered, definition |-> t.definition,
       config |-> [vm |-> FALSE, pool |-> pool, containers |-> cs,
                   task |-> [supervisor_exe |-> body.supervisor_exe,
                             target_exe |-> te,
                             target_options |-> body.target_options,
                             target_env |-> body.target_env,
                             generator_exe |-> ge,
                             stats_file |-> stats.stats_file,
                             stats_format |-> stats.stats_format]],
       world |-> [containers |-> ContainerNames, blobs |-> blobs,
                 pool_workers |-> 1]] :
        t \in TypeLookups, pool \in Pools,
        cs \in {<<>>, <<Container("c1", "setup")>>,
                <<Container("c1", "setup"), Container("c2", "tools")>>,
                <<Container("c1", "setup"), Container("c2", "crashes")>>},
        body \in {[supervisor_exe |-> Some("sup"), target_options |-> Some(<<"{input}">>),
                   target_env |-> None],
                  [supervisor_exe |-> Some(""), target_options |-> None,
                   target_env |-> None],
                  [supervisor_exe |-> Some("sup"), target_options |-> Some(<<"-x">>),
                   target_env |-> Some(<<"--file={input}">>)],
                  [supervisor_exe |-> Some("sup"), target_options |-> Some(<<"-x">>),
                   target_env |-> None]},
        te \in TargetExes, ge \in GeneratorExes,
        stats \in {[stats_file |-> None, stats_format |-> None],
                   [stats_file |-> Some("stats.json"), stats_format |-> None],
                   [stats_file |-> Some("stats.json"), stats_format |-> Some("AFL")]},
        blobs \in BlobStores }

InitCheck ==
    /\ pc = "ready"
    /\ input \in ContainerSubmissions \cup TaskSubmissions
    /\ output = None
    /\ row = [f \in Fields |-> Absent]
    /\ lastWrite = [f \in Fields |-> Absent]
    /\ clients = [c \in 1..NClients |-> Idle]

check_config_call ==
    /\ pc = "ready"
    /\ output' = check_config(input)
    /\ pc' = "done"
    /\ UNCHANGED <<input, storeVars>>

SpecCheck == InitCheck /\ [][check_config_call]_vars

\* ---- what each rule of check_config forbids, stated on the submission alone

RuleCount(cs, role) == Cardinality({j \in DOMAIN cs : cs[j].type = role})

RuleSatisfies(compare, value, n) ==
    \/ compare = "Equal" /\ n = value
    \/ compare = "AtLeast" /\ value <= n
    \/ compare = "AtMost" /\ value >= n

RuleUsesInput(task) ==
    \/ task.target_options # None
       /\ \E x \in Range(task.target_options[1]) : x \in UsesInputStrings
    \/ task.target_env # None
       /\ \E x \in Range(task.target_env[1]) : x \in UsesInputStrings

\* the message of the error that the rule asks for on this submission, "" when the
\* submission satisfies the rule
RuleViolation(rule, in) ==
    LET cs == in.config.containers
        task == in.config.task
        pool == in.config.pool
        d == in.definition
        declared == {d.containers[i].type : i \in DOMAIN d.containers}
    IN CASE rule = "task_type" ->
              IF ~in.registered THEN "unsupported task type" ELSE ""
         [] rule = "existence" ->
              IF \E j \in DOMAIN cs : cs[j].name \notin in.world.containers
              THEN "missing container" ELSE ""
         [] rule = "cardinality" ->
              IF \E i \in DOMAIN d.containers :
                    ~RuleSatisfies(d.containers[i].compare, d.containers[i].value,
                                   RuleCount(cs, d.containers[i].type))
              THEN "container type: expected" ELSE ""
         [] rule = "unsupported_role" ->
              IF \E j \in DOMAIN cs : cs[j].type \notin declared
              THEN "unsupported container type for this task" ELSE ""
         [] rule = "monitor_role" ->
              IF d.monitor_queue # None /\ d.monitor_queue[1] \notin declared
              THEN "unable to monitor container type" ELSE ""
         [] rule = "supervisor_exe" ->
              IF "supervisor_exe" \in d.features
                 /\ task.supervisor_exe \in {None, Some("")}
              THEN "missing supervisor_exe" ELSE ""
         [] rule = "input" ->
              IF "target_must_use_input" \in d.features /\ ~RuleUsesInput(task)
              THEN "{input} must be used in target_env or target_options" ELSE ""
         [] rule = "pool_presence" ->
              IF pool = None THEN "pool must be specified" ELSE ""
         [] rule = "pool_resolution" ->
              IF pool # None /\ pool[1].pool_name \notin KnownPools
              THEN "invalid pool" ELSE ""
         [] rule = "worker_count" ->
              IF pool # None /\ ~RuleSatisfies(d.vm.compare, d.vm.value, pool[1].count)
              THEN "invalid vm count" ELSE ""
         [] rule = "target_exe" ->
              IF task.target_exe = None
              THEN (IF "target_exe" \in d.features THEN "missing target_exe" ELSE "")
              ELSE IF ~is_valid_blob_name(task.target_exe[1])
              THEN "target_exe must be a canonicalized relative path"
              ELSE IF RuleCount(cs, "setup") = 0 THEN "list index out of range"
              ELSE ""
         [] rule = "generator_exe" ->
              IF "generator_exe" \notin d.features THEN ""
              ELSE IF RuleCount(cs, "tools") = 0 THEN "list index out of range"
              ELSE IF task.generator_exe = None
                      \/ task.generator_exe = Some([prefix |-> "", rest |-> <<>>])
              THEN "generator_exe is not defined"
              ELSE IF task.generator_exe[1].prefix # ""
                      /\ <<cs[CHOOSE j \in DOMAIN cs :
                                 /\ cs[j].type = "tools"
                                 /\ \A k \in 1..(j - 1) : cs[k].type # "tools"].name,
                            SelectSeq(task.generator_exe[1].rest,
                                      LAMBDA x : x # task.generator_exe[1].prefix)>>
                         \notin in.world.blobs
              THEN "generator_exe does not exist in the tools container"
              ELSE ""
         [] rule = "stats_format" ->
              IF "stats_file" \in d.features /\ task.stats_file # None
                 /\ task.stats_format = None
              THEN "using a stats_file requires a stats_format" ELSE ""

\* position in order of the first rule the submission violates, Len(order) + 1 if none
FirstViolated(order, in) ==
    LET bad == {i \in DOMAIN order : RuleViolation(order[i], in) # ""}
    IN IF bad = {} THEN Len(order) + 1
       ELSE CHOOSE i \in bad : \A j \in bad : i <= j

FirstViolationMsg(order, in) ==
    IF FirstViolated(order, in) > Len(order) THEN ""
    ELSE RuleViolation(order[FirstViolated(order, in)], in)

ContainerRules == <<"existence", "cardinality", "unsupported_role", "monitor_role">>

StorageCalls(calls) ==
    {i \in DOMAIN calls : calls[i].fn \in {"container_exists", "blob_exists"}}

\* C2 as stated: with vm set check_config fails at the vm/pool rule, with the 'not
\* both' error when pool is set too and the 'vm no longer supported' error otherwise,
\* before any container or feature check, so that no storage existence call is made.
C2_VmFailsAtRule2 ==
    pc = "done" /\ input.registered /\ input.config.vm =>
        /\ output.kind = "TaskConfigError"
        /\ output.msg = IF input.config.pool # None
                        THEN "either the vm or pool must be specified, but not both"
                        ELSE "specifying task config vm is no longer supported"
        /\ StorageCalls(output.calls) = {}

\* C2 as amended: with vm set check_config always fails with TaskConfigError. With
\* pool set too it is the 'not both' error and no collaborator is called. With vm
\* alone the container checks, the supervisor_exe check and the {input} check come
\* first, container_exists calls included: the error is that of the first of them the
\* submission violates and the 'vm no longer supported' error when it violates none;
\* no pool lookup and no blob existence call is made.
C2_VmAlwaysRejected ==
    pc = "done" /\ input.registered /\ input.config.vm =>
        LET before == ContainerRules \o <<"supervisor_exe", "input">>
        IN /\ output.kind = "TaskConfigError"
           /\ input.config.pool # None =>
                 /\ output.msg = "either the vm or pool must be specified, but not both"
                 /\ output.calls = <<>>
           /\ input.config.pool = None =>
                 /\ output.msg =
                       IF FirstViolated(before, input) > Len(before)
                       THEN "specifying task config vm is no longer supported"
                       ELSE FirstViolationMsg(before, input)
                 /\ \A i \in DOMAIN output.calls :
                       output.calls[i].fn = "container_exists"

\* vm alone on a submission whose containers pass: rejected for the vm after the
\* store was asked about the containers
C2_Witness ==
    /\ pc = "done" /\ input.registered
    /\ input.config.vm /\ input.config.pool = None
    /\ output.msg = "specifying task config vm is no longer supported"
    /\ StorageCalls(output.calls) # {}

C3_ClaimedOrder ==
    <<"task_type", "cardinality", "unsupported_role", "monitor_role", "existence",
      "supervisor_exe", "input", "pool_presence", "pool_resolution", "worker_count",
      "target_exe", "generator_exe", "stats_format">>

C3_CodeOrder ==
    <<"task_type", "existence", "cardinality", "unsupported_role", "monitor_role",
      "supervisor_exe", "input", "pool_presence", "worker_count", "pool_resolution",
      "target_exe", "generator_exe", "stats_format">>

\* C3 as stated: without vm, the one TaskConfigError raised is that of the earliest
\* violated rule in the order: task type, cardinality (with unsupported role and
\* monitor role), container existence, supervisor_exe, {input}, pool presence, pool
\* resolution, worker count, target_exe, generator_exe, stats_format.
C3_FirstInClaimedOrder ==
    pc = "done" /\ ~input.config.vm =>
        /\ output.msg = FirstViolationMsg(C3_ClaimedOrder, input)
        /\ output.kind = IF output.msg = "" THEN "ok" ELSE "TaskConfigError"

\* position in C3_CodeOrder of the rule a collaborator call belongs to
C3_RuleOfCall(fn) ==
    CASE fn = "container_exists" -> 2
      [] fn = "Pool.get_by_name" -> 10
      [] fn \in {"blob_exists", "LOGGER.warning"} -> 11

\* C3 as amended: without vm, the one error raised is that of the earliest violated
\* rule in the order: task type, container existence, cardinality, unsupported role,
\* monitor role, supervisor_exe, {input}, pool presence, worker count of the pool
\* reference, pool resolution, target_exe, generator_exe, stats_format. It is a
\* TaskConfigError, except that the target_exe rule (valid target_exe, no setup
\* container) and the generator_exe rule (no tools container) raise IndexError. No
\* collaborator is called for a rule after the failing one, and the container
\* existence calls stop at the first missing container.
C3_FirstInCodeOrder ==
    pc = "done" /\ ~input.config.vm =>
        LET first == FirstViolated(C3_CodeOrder, input)
            calls == output.calls
        IN /\ output.msg = FirstViolationMsg(C3_CodeOrder, input)
           /\ output.kind = IF output.msg = "" THEN "ok"
                            ELSE IF output.msg = "list index out of range"
                            THEN "IndexError" ELSE "TaskConfigError"
           /\ \A i \in DOMAIN calls : C3_RuleOfCall(calls[i].fn) <= first
           /\ \A i \in DOMAIN calls :
                 calls[i].fn = "container_exists" /\ i < Len(calls)
                    => calls[i].container \in input.world.containers

\* a submission with a missing container, a cardinality violation and no pool is
\* refused for the missing container
C3_Witness ==
    /\ pc = "done" /\ ~input.config.vm
    /\ RuleViolation("existence", input) # ""
    /\ RuleViolation("cardinality", input) # ""
    /\ RuleViolation("pool_presence", input) # ""
    /\ output.msg = "missing container"

\* C4: check_config returns without error only if every role the definition declares
\* has a container count that satisfies its comparator and every submitted role is
\* declared; otherwise it fails with TaskConfigError. A definition asking for exactly
\* one setup container refuses zero or two and does not refuse one for its count.
C4_Cardinality ==
    pc = "done" /\ input.registered =>
        LET cs == input.config.containers
            defs == input.definition.containers
            counted == \A i \in DOMAIN defs :
                          RuleSatisfies(defs[i].compare, defs[i].value,
                                        RuleCount(cs, defs[i].type))
            declared == \A j \in DOMAIN cs :
                           \E i \in DOMAIN defs : defs[i].type = cs[j].type
            oneSetup == \E i \in DOMAIN defs :
                           /\ defs[i].type = "setup"
                           /\ defs[i].compare = "Equal" /\ defs[i].value = 1
        IN /\ output.kind = "ok" => counted /\ declared
           /\ ~(counted /\ declared) => output.kind = "TaskConfigError"
           /\ oneSetup /\ RuleCount(cs, "setup") = 1 =>
                 ~(output.msg = "container type: expected" /\ output.arg = "setup")
           /\ oneSetup /\ RuleCount(cs, "setup") \in {0, 2}
              /\ (\A j \in DOMAIN cs : cs[j].name \in input.world.containers)
              /\ ~(input.config.vm /\ input.config.pool # None) =>
                 output.msg = "container type: expected" /\ output.arg = "setup"

\* two setup containers, both in the store, against a definition asking for one
C4_Witness ==
    /\ pc = "done" /\ input.registered
    /\ RuleCount(input.config.containers, "setup") = 2
    /\ output.kind = "TaskConfigError"
    /\ output.msg = "container type: expected" /\ output.arg = "setup"

\* ---- build_task_config (tasks/config.py)

EMPTY_DICT == {}
EMPTY_LIST == <<>>

\* Python's "x or default" on an optional value; zero is the falsy value of x's type
py_or(x, zero, default) == IF x = None \/ x[1] = zero THEN default ELSE x[1]

\* "x if x is not None else default", with "or" in its place
is_not_none_else_or(x, default) == IF x = None \/ x[1] = FALSE THEN default ELSE x[1]

\* "x if x is not None else default"
is_not_none_else(x, default) == IF x # None THEN x[1] ELSE default

\* get_container_sas_url asked for read whatever the definition says
get_container_sas_url_read(container, read, write, delete, list_) ==
    [fn |-> "get_container_sas_url", container |-> container, read |-> TRUE,
     write |-> write, delete |-> delete, list_ |-> list_]

\* the access URL asked of the store: it stands for the request that produced it
get_container_sas_url(container, read, write, delete, list_) ==
    [fn |-> "get_container_sas_url", container |-> container, read |-> read,
     write |-> write, delete |-> delete, list_ |-> list_]

add_container_sas_url(container) ==
    [fn |-> "add_container_sas_url", container |-> container, read |-> TRUE,
     write |-> TRUE, delete |-> TRUE, list_ |-> TRUE]

get_queue_sas(queue) ==
    [fn |-> "get_queue_sas", container |-> queue, read |-> TRUE,
     write |-> FALSE, delete |-> FALSE, list_ |-> FALSE]

\* the entries gathered for container_def from the submitted containers i..Len
RECURSIVE GatherContainers(_, _, _)
GatherContainers(container_def, containers, i) ==
    IF i > Len(containers) THEN <<>>
    ELSE IF containers[i].type # container_def.type
    THEN GatherContainers(container_def, containers, i + 1)
    ELSE <<[path |-> "task" \o "_" \o container_def.type \o "_" \o ToString(i - 1),
            url |-> get_container_sas_url(
                        containers[i].name,
                        "Read" \in container_def.permissions,
                        "Write" \in container_def.permissions,
                        "Delete" \in container_def.permissions,
                        "List" \in container_def.permissions)]>>
         \o GatherContainers(container_def, containers, i + 1)

\* a role whose field holds one entry, with AtMost left out
single_entry_equal_only(container_def) ==
    container_def.compare = "Equal" /\ container_def.value = 1

\* a role whose field holds one entry instead of a list
single_entry(container_def) ==
    container_def.compare \in {"Equal", "AtMost"} /\ container_def.value = 1

UrlsOf(entries) == [k \in DOMAIN entries |-> entries[k].url]

\* the loop over definition.containers from k on: the role fields set and the
\* access URLs asked for
RECURSIVE BuildContainers(_, _, _, _, _)
BuildContainers(defs, k, containers, fields, calls) ==
    IF k > Len(defs) THEN [fields |-> fields, calls |-> calls]
    ELSE IF defs[k].type = "setup"
    THEN BuildContainers(defs, k + 1, containers, fields, calls)
    ELSE LET gathered == GatherContainers(defs[k], containers, 1)
         IN IF gathered = <<>>
            THEN BuildContainers(defs, k + 1, containers, fields, calls)
            ELSE BuildContainers(
                     defs, k + 1, containers,
                     [fields EXCEPT ![defs[k].type] =
                         IF single_entry(defs[k])
                         THEN Some([list |-> FALSE, value |-> <<gathered[1]>>])
                         ELSE Some([list |-> TRUE, value |-> gathered])],
                     calls \o UrlsOf(gathered))

\* the fields of the task body copied or defaulted by feature
BuildFeatures(features, task) ==
    [supervisor_exe |->
        IF "supervisor_exe" \in features THEN task.supervisor_exe ELSE None,
     supervisor_env |->
        IF "supervisor_env" \in features
        THEN Some(py_or(task.supervisor_env, EMPTY_DICT, EMPTY_DICT)) ELSE None,
     supervisor_options |->
        IF "supervisor_options" \in features
        THEN Some(py_or(task.supervisor_options, EMPTY_LIST, EMPTY_LIST)) ELSE None,
     supervisor_input_marker |->
        IF "supervisor_input_marker" \in features
        THEN task.supervisor_input_marker ELSE None,
     target_exe |->
        IF "target_exe_optional" \in features
           /\ task.target_exe \notin {None, Some("")}
        THEN task.target_exe
        ELSE IF "target_exe" \in features THEN task.target_exe ELSE None,
     target_env |->
        IF "target_env" \in features
        THEN Some(py_or(task.target_env, EMPTY_DICT, EMPTY_DICT)) ELSE None,
     target_options |->
        IF "target_options" \in features
        THEN Some(py_or(task.target_options, EMPTY_LIST, EMPTY_LIST)) ELSE None,
     target_options_merge |->
        IF "target_options_merge" \in features
        THEN Some(py_or(task.target_options_merge, FALSE, FALSE)) ELSE None,
     target_workers |->
        IF "target_workers" \in features THEN task.target_workers ELSE None,
     rename_output |->
        IF "rename_output" \in features
        THEN Some(py_or(task.rename_output, FALSE, FALSE)) ELSE None,
     generator_exe |->
        IF "generator_exe" \in features THEN task.generator_exe ELSE None,
     generator_env |->
        IF "generator_env" \in features
        THEN Some(py_or(task.generator_env, EMPTY_DICT, EMPTY_DICT)) ELSE None,
     generator_options |->
        IF "generator_options" \in features
        THEN Some(py_or(task.generator_options, EMPTY_LIST, EMPTY_LIST)) ELSE None,
     wait_for_files |->
        IF "wait_for_files" \in features /\ task.wait_for_files # None
        THEN Some(task.wait_for_files[1].name) ELSE None,
     analyzer_exe |->
        IF "analyzer_exe" \in features THEN task.analyzer_exe ELSE None,
     analyzer_options |->
        IF "analyzer_options" \in features
        THEN Some(py_or(task.analyzer_options, EMPTY_LIST, EMPTY_LIST)) ELSE None,
     analyzer_env |->
        IF "analyzer_env" \in features
        THEN Some(py_or(task.analyzer_env, EMPTY_DICT, EMPTY_DICT)) ELSE None,
     stats_file |->
        IF "stats_file" \in features THEN task.stats_file ELSE None,
     stats_format |->
        IF "stats_file" \in features THEN task.stats_format ELSE None,
     target_timeout |->
        IF "target_timeout" \in features THEN task.target_timeout ELSE None,
     check_asan_log |->
        IF "check_asan_log" \in features THEN task.check_asan_log ELSE None,
     check_debugger |->
        IF "check_debugger" \in features THEN task.check_debugger ELSE None,
     check_retry_count |->
        IF "check_retry_count" \in features
        THEN Some(py_or(task.check_retry_count, 0, 0)) ELSE None,
     ensemble_sync_delay |->
        IF "ensemble_sync_delay" \in features THEN task.ensemble_sync_delay ELSE None,
     check_fuzzer_help |->
        IF "check_fuzzer_help" \in features
        THEN Some(is_not_none_else(task.check_fuzzer_help, TRUE)) ELSE None,
     report_list |->
        IF "report_list" \in features THEN task.report_list ELSE None,
     minimized_stack_depth |->
        IF "minimized_stack_depth" \in features
        THEN task.minimized_stack_depth ELSE None,
     expect_crash_on_failure |->
        IF "expect_crash_on_failure" \in features
        THEN Some(is_not_none_else(task.expect_crash_on_failure, TRUE)) ELSE None,
     coverage_filter |->
        IF "coverage_filter" \in features /\ task.coverage_filter # None
        THEN task.coverage_filter ELSE None,
     target_assembly |->
        IF "target_assembly" \in features THEN task.target_assembly ELSE None,
     target_class |->
        IF "target_class" \in features THEN task.target_class ELSE None,
     target_method |->
        IF "target_method" \in features THEN task.target_method ELSE None]

build_task_config(in) ==
    IF ~in.registered
    THEN [kind |-> "TaskConfigError", msg |-> "unsupported task type",
          logs |-> None, input_queue |-> None,
          containers |-> [t \in ContainerTypes |-> None],
          features |-> BuildFeatures({}, in.config.task), calls |-> <<>>]
    ELSE LET definition == in.definition
             logs == IF in.logs # None
                     THEN <<add_container_sas_url(in.logs[1])>> ELSE <<>>
             input_queue == IF definition.monitor_queue # None
                            THEN <<get_queue_sas("task_id")>> ELSE <<>>
             built == BuildContainers(definition.containers, 1, in.config.containers,
                                      [t \in ContainerTypes |-> None],
                                      <<get_queue_sas("task-heartbeat")>>
                                          \o logs \o input_queue)
         IN [kind |-> "ok", msg |-> "",
             logs |-> logs, input_queue |-> input_queue,
             containers |-> built.fields,
             features |-> BuildFeatures(definition.features, in.config.task),
             calls |-> built.calls]

\* ---- the definitions, jobs and tasks handed to build_task_config

TableFeatures ==
    {"supervisor_env", "supervisor_options", "target_env", "target_options",
     "target_options_merge", "rename_output", "generator_env", "generator_options",
     "analyzer_options", "analyzer_env", "check_retry_count", "check_fuzzer_help",
     "expect_crash_on_failure"}

TaskFields ==
    TableFeatures \cup
    {"supervisor_exe", "supervisor_input_marker", "target_exe", "target_workers",
     "generator_exe", "wait_for_files", "analyzer_exe", "stats_file", "stats_format",
     "target_timeout", "check_asan_log", "check_debugger", "ensemble_sync_delay",
     "report_list", "minimized_stack_depth", "coverage_filter", "target_assembly",
     "target_class", "target_method"}

TaskFeatures == (TaskFields \ {"stats_format"}) \cup {"target_exe_optional"}

\* the values a field of the task body takes: unset, the falsy value of its type,
\* a truthy one
FieldValues(f) ==
    CASE f \in {"supervisor_env", "target_env", "generator_env", "analyzer_env"} ->
            <<None, Some({}), Some({<<"K", "V">>})>>
      [] f \in {"supervisor_options", "target_options", "generator_options",
                "analyzer_options", "report_list"} ->
            <<None, Some(<<>>), Some(<<"x">>)>>
      [] f \in {"target_options_merge", "rename_output", "check_fuzzer_help",
                "expect_crash_on_failure", "check_asan_log", "check_debugger"} ->
            <<None, Some(FALSE), Some(TRUE)>>
      [] f \in {"check_retry_count", "target_workers", "target_timeout",
                "ensemble_sync_delay", "minimized_stack_depth"} ->
            <<None, Some(0), Some(3)>>
      [] f = "wait_for_files" ->
            <<None, Some([name |-> "crashes"]), Some([name |-> "tools"])>>
      [] OTHER -> <<None, Some(""), Some("s")>>

\* task bodies: every field unset or every field truthy, but for one field
TaskBodies ==
    {[f \in TaskFields |-> IF f = g THEN FieldValues(f)[v] ELSE FieldValues(f)[b]] :
        g \in TaskFields, v \in 1..3, b \in {1, 3}}

FeatureSets ==
    {{}, TaskFeatures} \cup {{f} : f \in TaskFeatures}
    \cup {TaskFeatures \ {f} : f \in TaskFeatures}

PermissionSets == {{"Write"}, {"Read", "List"}}

RoleDefinitions(type) ==
    {<<>>} \cup {<<CDef(type, c, v, p)>> :
                    c \in {"Equal", "AtLeast", "AtMost"}, v \in {1, 2},
                    p \in PermissionSets}

\* definitions that vary what they declare for the roles; each role is declared once
BuildDefinitions ==
    {[containers |-> <<CDef("setup", "Equal", 1, {"Read", "List"})>> \o t \o c,
      features |-> {"target_exe"},
      vm |-> [compare |-> "AtLeast", value |-> 1],
      monitor_queue |-> m] :
        t \in RoleDefinitions("tools"),
        c \in {<<>>, <<CDef("crashes", "Equal", 1, {"Write"})>>,
               <<CDef("crashes", "AtMost", 1, {"Read", "Write", "Delete", "List"})>>,
               <<CDef("crashes", "AtLeast", 1, {"Read", "List"})>>},
        m \in {None, Some("crashes")}}

\* a submitted container and the permission set it is submitted with
TaskContainers ==
    [name : ContainerNames, type : ContainerTypes, permissions : PermissionSets]

\* builds that vary the definition's roles and the submitted containers
ContainerBuilds ==
    {[registered |-> TRUE, definition |-> d, logs |-> logs,
      config |-> [containers |-> cs,
                  task |-> [f \in TaskFields |-> FieldValues(f)[3]]]] :
        d \in BuildDefinitions, logs \in {None, Some("logs")},
        cs \in SeqsUpTo(TaskContainers, MaxContainers)}

\* builds that vary the declared features and the task body
FeatureBuilds ==
    {[registered |-> r, logs |-> Some("logs"),
      definition |-> [containers |-> <<CDef("setup", "Equal", 1, {"Read", "List"}),
                                       CDef("crashes", "AtLeast", 1, {"Write"})>>,
                      features |-> IF r THEN fs ELSE {},
                      vm |-> [compare |-> "AtLeast", value |-> 1],
                      monitor_queue |-> None],
      config |-> [containers |-> <<[name |-> "c1", type |-> "setup",
                                    permissions |-> {"Read", "List"}],
                                   [name |-> "c2", type |-> "crashes",
                                    permissions |-> {"Write"}]>>,
                  task |-> body]] :
        r \in BOOLEAN, fs \in FeatureSets, body \in TaskBodies}

InitBuild ==
    /\ pc = "ready"
    /\ input \in ContainerBuilds \cup FeatureBuilds
    /\ output = None
    /\ row = [f \in Fields |-> Absent]
    /\ lastWrite = [f \in Fields |-> Absent]
    /\ clients = [c \in 1..NClients |-> Idle]

build_task_config_call ==
    /\ pc = "ready"
    /\ output' = build_task_config(input)
    /\ pc' = "done"
    /\ UNCHANGED <<input, storeVars>>

SpecBuild == InitBuild /\ [][build_task_config_call]_vars

\* ---- what build_task_config owes its caller

\* the positions in the submission of the containers of a role
RolePositions(cs, role) == {i \in DOMAIN cs : cs[i].type = role}

\* the k-th of a set of positions, in increasing order
KthPosition(positions, k) ==
    CHOOSE i \in positions : Cardinality({j \in positions : j < i}) = k - 1

DeclaredFor(definition, role) ==
    {i \in DOMAIN definition.containers : definition.containers[i].type = role}

\* C8: for each non-setup role the definition declares and the submission has a
\* container of, the role's field is a single entry, that of the first such container,
\* when the comparator is Equal or AtMost with value 1, and otherwise the list of the
\* entries of the role's containers in submission order; an entry's path is
\* task_<role>_<index>, the index being the container's position in the submission
\* counted from 0; the setup role and the roles without a container or a declaration
\* leave their field unset.
C8_RoleFields ==
    pc = "done" /\ output.kind = "ok" =>
        \A role \in ContainerTypes :
            LET cs == input.config.containers
                declared == DeclaredFor(input.definition, role)
                positions == RolePositions(cs, role)
                field == output.containers[role]
                Path(i) == "task_" \o role \o "_" \o ToString(i - 1)
            IN IF role = "setup" \/ declared = {} \/ positions = {}
               THEN field = None
               ELSE LET d == input.definition.containers[CHOOSE i \in declared : TRUE]
                        single == d.compare \in {"Equal", "AtMost"} /\ d.value = 1
                        entries == field[1].value
                    IN /\ field # None
                       /\ field[1].list = ~single
                       /\ Len(entries) = IF single THEN 1 ELSE Cardinality(positions)
                       /\ \A k \in DOMAIN entries :
                             /\ entries[k].path = Path(KthPosition(positions, k))
                             /\ entries[k].url.container =
                                   cs[KthPosition(positions, k)].name

\* a role declared AtMost 1 with its container in second place of the submission:
\* one entry, numbered 1
C8_Witness ==
    /\ pc = "done" /\ output.kind = "ok"
    /\ \E i \in DOMAIN input.definition.containers :
          /\ input.definition.containers[i].type = "crashes"
          /\ input.definition.containers[i].compare = "AtMost"
    /\ output.containers["crashes"] # None
    /\ ~output.containers["crashes"][1].list
    /\ output.containers["crashes"][1].value[1].path = "task_crashes_1"
    /\ output.containers["tools"] # None
    /\ output.containers["tools"][1].list

ContainerUrls(calls) ==
    {i \in DOMAIN calls : calls[i].fn = "get_container_sas_url"}

\* the submitted containers an access URL is owed for
UrlPositions(in) ==
    {i \in DOMAIN in.config.containers :
        /\ in.config.containers[i].type # "setup"
        /\ DeclaredFor(in.definition, in.config.containers[i].type) # {}}

Flags(permissions) ==
    [read |-> "Read" \in permissions, write |-> "Write" \in permissions,
     delete |-> "Delete" \in permissions, list_ |-> "List" \in permissions]

FlagsOf(call) ==
    [read |-> call.read, write |-> call.write, delete |-> call.delete,
     list_ |-> call.list_]

\* the permission set the definition declares for the role of a submitted container
DeclaredPermissions(in, i) ==
    in.definition.containers[
        CHOOSE k \in DeclaredFor(in.definition, in.config.containers[i].type) : TRUE
    ].permissions

\* C9 as stated: one access URL per submitted container of a declared non-setup role,
\* its flags being the membership of Read, Write, Delete and List in the permission
\* set the container was submitted with.
C9_FlagsOfSubmittedSet ==
    pc = "done" /\ output.kind = "ok" =>
        LET cs == input.config.containers
            calls == output.calls
            owed == UrlPositions(input)
            Issued(name, flags) ==
                Cardinality({k \in ContainerUrls(calls) :
                                calls[k].container = name /\ FlagsOf(calls[k]) = flags})
            Owed(name, flags) ==
                Cardinality({j \in owed :
                                cs[j].name = name /\ Flags(cs[j].permissions) = flags})
        IN /\ Cardinality(ContainerUrls(calls)) = Cardinality(owed)
           /\ \A k \in ContainerUrls(calls) :
                 Issued(calls[k].container, FlagsOf(calls[k]))
                 = Owed(calls[k].container, FlagsOf(calls[k]))

\* C9 as amended: one access URL per submitted container of a declared non-setup role,
\* its flags being the membership of Read, Write, Delete and List in the permission
\* set the definition declares for the container's role; the permission set the
\* container was submitted with is not read.
C9_FlagsOfDeclaredSet ==
    pc = "done" /\ output.kind = "ok" =>
        LET cs == input.config.containers
            calls == output.calls
            owed == UrlPositions(input)
            Issued(name, flags) ==
                Cardinality({k \in ContainerUrls(calls) :
                                calls[k].container = name /\ FlagsOf(calls[k]) = flags})
            Owed(name, flags) ==
                Cardinality({j \in owed :
                                cs[j].name = name /\ Flags(DeclaredPermissions(input, j)) = flags})
        IN /\ Cardinality(ContainerUrls(calls)) = Cardinality(owed)
           /\ \A k \in ContainerUrls(calls) :
                 Issued(calls[k].container, FlagsOf(calls[k]))
                 = Owed(calls[k].container, FlagsOf(calls[k]))

\* a container submitted with Write only, of a role declared Read and List: the URL
\* asked for reads and lists and does not write
C9_Witness ==
    /\ pc = "done" /\ output.kind = "ok"
    /\ \E i \in UrlPositions(input) :
          /\ input.config.containers[i].permissions = {"Write"}
          /\ DeclaredPermissions(input, i) = {"Read", "List"}
          /\ \E k \in ContainerUrls(output.calls) :
                /\ output.calls[k].container = input.config.containers[i].name
                /\ output.calls[k].read /\ ~output.calls[k].write
    /\ Cardinality(ContainerUrls(output.calls)) = Cardinality(UrlPositions(input))

\* the default table of the features
C10_Default(f) ==
    CASE f \in {"supervisor_env", "target_env", "generator_env", "analyzer_env"} -> {}
      [] f \in {"supervisor_options", "target_options", "generator_options",
                "analyzer_options"} -> <<>>
      [] f \in {"target_options_merge", "rename_output"} -> FALSE
      [] f = "check_retry_count" -> 0
      [] f \in {"check_fuzzer_help", "expect_crash_on_failure"} -> TRUE

\* C10: for every feature of the default table, a definition that declares it gives
\* the output field the user's value when one is supplied, an explicit false for
\* check_fuzzer_help and expect_crash_on_failure included, and the feature's default
\* when none is; a definition that does not declare it leaves the field unset.
C10_FeatureDefaults ==
    pc = "done" /\ output.kind = "ok" =>
        \A f \in TableFeatures :
            LET user == input.config.task[f]
            IN output.features[f] =
                  IF f \notin input.definition.features THEN None
                  ELSE IF user # None THEN Some(user[1])
                  ELSE Some(C10_Default(f))

\* check_fuzzer_help declared and submitted as false comes out false, next to a
\* declared rename_output that was not submitted and comes out false too
C10_Witness ==
    /\ pc = "done" /\ output.kind = "ok"
    /\ {"check_fuzzer_help", "rename_output"} \subseteq input.definition.features
    /\ input.config.task.check_fuzzer_help = Some(FALSE)
    /\ output.features.check_fuzzer_help = Some(FALSE)
    /\ input.config.task.rename_output = None
    /\ output.features.rename_output = Some(FALSE)

\* C11 as stated: without vm, check_config succeeds only if the pool reference is set,
\* its name resolves to a known pool and the worker count of the resolved pool
\* satisfies the definition's vm comparator; if one of the three fails, check_config
\* fails with TaskConfigError.
C11_ResolvedPoolCount ==
    pc = "done" /\ input.registered /\ ~input.config.vm =>
        LET pool == input.config.pool
            vm == input.definition.vm
            passes == /\ pool # None
                      /\ pool[1].pool_name \in KnownPools
                      /\ RuleSatisfies(vm.compare, vm.value, input.world.pool_workers)
        IN /\ output.kind = "ok" => passes
           /\ ~passes => output.kind = "TaskConfigError"

\* C11 as amended: without vm, check_config succeeds only if the pool reference is
\* set, the count given in the pool reference satisfies the definition's vm
\* comparator and the reference's pool name resolves to a known pool; if one of the
\* three fails, check_config fails with TaskConfigError. The count is compared before
\* the name is looked up, and the registry's pool is only tested for being found.
C11_ReferenceCount ==
    pc = "done" /\ input.registered /\ ~input.config.vm =>
        LET pool == input.config.pool
            vm == input.definition.vm
            counted == pool # None /\ RuleSatisfies(vm.compare, vm.value, pool[1].count)
            passes == counted /\ pool[1].pool_name \in KnownPools
            lookups == {i \in DOMAIN output.calls :
                           output.calls[i].fn = "Pool.get_by_name"}
        IN /\ output.kind = "ok" => passes
           /\ ~passes => output.kind = "TaskConfigError"
           /\ lookups # {} => counted

\* a reference of one worker to a known pool of two workers, under a definition that
\* asks for exactly one: accepted
C11_Witness ==
    /\ pc = "done" /\ input.registered /\ ~input.config.vm
    /\ input.definition.vm = [compare |-> "Equal", value |-> 1]
    /\ input.config.pool = Some([count |-> 1, pool_name |-> "pool1"])
    /\ input.world.pool_workers = 2
    /\ output.kind = "ok"

\* the rules of check_config that come before the generator_exe rule
BeforeGenerator ==
    <<"task_type", "existence", "cardinality", "unsupported_role", "monitor_role",
      "supervisor_exe", "input", "pool_presence", "worker_count", "pool_resolution",
      "target_exe">>

\* the blob_exists calls of a run but for its first skip ones
LaterLookups(calls, skip) ==
    LET lookups == {i \in DOMAIN calls : calls[i].fn = "blob_exists"}
    IN {i \in lookups : Cardinality({j \in lookups : j < i}) >= skip}

\* C12 as stated: when the definition declares generator_exe and all earlier rules
\* pass, check_config fails with TaskConfigError, and with no other kind of failure,
\* if generator_exe is unset; if generator_exe starts with one of the two tools_dir
\* prefixes, the remainder after the prefix is looked up in a tools container of the
\* submission and check_config fails with TaskConfigError when it is not there; with
\* neither prefix no lookup is made and the rule passes.
C12_GeneratorRule ==
    /\ pc = "done" /\ input.registered /\ ~input.config.vm
    /\ "generator_exe" \in input.definition.features
    /\ FirstViolated(BeforeGenerator, input) > Len(BeforeGenerator)
    => LET task == input.config.task
           cs == input.config.containers
           exe == task.generator_exe
           unset == exe \in {None, Some([prefix |-> "", rest |-> <<>>])}
           lookups == LaterLookups(output.calls,
                                   IF task.target_exe = None THEN 0 ELSE 1)
       IN /\ unset => output.kind = "TaskConfigError"
          /\ ~unset /\ exe[1].prefix # "" =>
                /\ Cardinality(lookups) = 1
                /\ \A i \in lookups :
                      /\ output.calls[i].path = exe[1].rest
                      /\ \E j \in DOMAIN cs : /\ cs[j].type = "tools"
                                              /\ cs[j].name = output.calls[i].container
                      /\ <<output.calls[i].container, exe[1].rest>>
                            \notin input.world.blobs
                         => output.kind = "TaskConfigError"
          /\ ~unset /\ exe[1].prefix = "" =>
                /\ lookups = {}
                /\ output.msg = RuleViolation("stats_format", input)
                /\ output.kind \in {"ok", "TaskConfigError"}

\* the submission with the store's answer about target_exe in the setup container
\* turned around
OtherAnswer(in) ==
    LET cs == in.config.containers
        asked == {<<cs[j].name, in.config.task.target_exe[1]>> :
                     j \in {k \in DOMAIN cs : cs[k].type = "setup"}}
    IN [in EXCEPT !.world.blobs =
           (in.world.blobs \ asked) \cup (asked \ in.world.blobs)]

\* check_config ends the same way whatever the store answers about target_exe, a
\* target_exe that is not a valid blob name is refused with TaskConfigError, and the
\* store is only asked about a target_exe that is a valid blob name
C13_SameOutcome ==
    pc = "done" /\ input.config.task.target_exe # None =>
        LET other == check_config(OtherAnswer(input))
            target_exe == input.config.task.target_exe[1]
        IN /\ other.kind = output.kind
           /\ other.msg = output.msg
           /\ other.arg = output.arg
           /\ ~is_valid_blob_name(target_exe) => output.kind = "TaskConfigError"
           /\ (\E i \in DOMAIN output.calls : output.calls[i].fn = "blob_exists")
              => is_valid_blob_name(target_exe)

\* C13 as stated: two runs of check_config that differ only in the store's answer
\* about target_exe in the setup container both succeed or both fail with the same
\* TaskConfigError; a supplied target_exe that is not a valid blob name makes
\* check_config fail with TaskConfigError; the store is only asked about a target_exe
\* that is a valid blob name.
C13_ExistenceNonFatal ==
    pc = "done" /\ input.config.task.target_exe # None =>
        LET other == check_config(OtherAnswer(input))
            target_exe == input.config.task.target_exe[1]
            asked == \E i \in DOMAIN output.calls : output.calls[i].fn = "blob_exists"
        IN /\ other.kind = output.kind
           /\ other.msg = output.msg
           /\ other.arg = output.arg
           /\ asked => output.kind \in {"ok", "TaskConfigError"}
           /\ ~is_valid_blob_name(target_exe) => output.kind = "TaskConfigError"
           /\ asked => is_valid_blob_name(target_exe)

\* ---- update_nsg on the rules parse_rules built (configuration.py)

\* the row before the call: never written, or written by earlier calls
PriorRows ==
    {[f \in Fields |-> Absent],
     [f \in Fields |->
        CASE f = "proxy_nsg_config" -> nsg_entity(<<>>).proxy_nsg_config
          [] f = "allowed_aad_tenants" -> json_dumps_list(<<>>)
          [] f = "admins" -> json_dumps_null]}

InitNsg ==
    /\ pc = "ready"
    /\ input \in {cfg \in [allowed_ips : SeqsUpTo(RuleStrings, MaxRules),
                           allowed_service_tags : SeqsUpTo(RuleStrings, MaxRules)] :
                     parse_rules(cfg).ok}
    /\ output = None
    /\ row \in PriorRows
    /\ lastWrite = [f \in Fields |-> Absent]
    /\ clients = [c \in 1..NClients |-> Idle]

\* update_nsg(config_client, parse_rules(config)): the table operations it makes are
\* logged with the row they found
update_nsg_call ==
    /\ pc = "ready"
    /\ row' = StoreUpsert(row, nsg_entity(parse_rules(input).rules))
    /\ output' = [before |-> row,
                  upserts |-> <<nsg_entity(parse_rules(input).rules)>>]
    /\ pc' = "done"
    /\ UNCHANGED <<input, lastWrite, clients>>

SpecNsg == InitNsg /\ [][update_nsg_call]_vars

\* the list stored under key in the JSON text of proxy_nsg_config
StoredList(text, key) ==
    LET k == CHOOSE i \in DOMAIN text : text[i] = key
        close == CHOOSE i \in DOMAIN text :
                    /\ i > k /\ text[i] = "]"
                    /\ \A j \in (k + 1)..(i - 1) : text[j] # "]"
    IN SubSeq(text, k + 3, close - 1)

\* C14: update_nsg makes one merge-upsert, which touches proxy_nsg_config only. The
\* stored allowed_service_tags list is the rules marked as tags in input order, the
\* stored allowed_ips list is the other rules in input order, and every rule string
\* is in exactly one of the two lists: a "*" or an IP literal given under
\* allowed_service_tags is stored under allowed_ips, and no rules store two empty
\* lists.
C14_Partition ==
    pc = "done" =>
        LET rules == parse_rules(input).rules
            tags == StoredList(row.proxy_nsg_config, "allowed_service_tags")
            ips == StoredList(row.proxy_nsg_config, "allowed_ips")
            Strs(s) == [i \in DOMAIN s |-> s[i].rule]
            literal == {"*"} \cup IpAddresses
        IN /\ Len(output.upserts) = 1
           /\ DOMAIN output.upserts[1] = {"proxy_nsg_config"}
           /\ \A f \in Fields \ {"proxy_nsg_config"} : row[f] = output.before[f]
           /\ tags = Strs(SelectSeq(rules, LAMBDA x : x.is_tag))
           /\ ips = Strs(SelectSeq(rules, LAMBDA x : ~x.is_tag))
           /\ Len(tags) + Len(ips) = Len(rules)
           /\ Range(tags) \cap Range(ips) = {}
           /\ Range(tags) \cup Range(ips) = Range(Strs(rules))
           /\ "*" \notin Range(input.allowed_ips) =>
                 \A i \in DOMAIN input.allowed_service_tags :
                    input.allowed_service_tags[i] \in literal =>
                       /\ input.allowed_service_tags[i] \in Range(ips)
                       /\ input.allowed_service_tags[i] \notin Range(tags)
           /\ rules = <<>> => tags = <<>> /\ ips = <<>>

\* a "*" and a tag given under allowed_service_tags over a row that held other
\* fields: the "*" is stored under allowed_ips, the tag under allowed_service_tags
C14_Witness ==
    /\ pc = "done"
    /\ input.allowed_ips = <<>>
    /\ input.allowed_service_tags = <<"Internet", "*">>
    /\ output.before["admins"] # Absent
    /\ StoredList(row.proxy_nsg_config, "allowed_ips") = <<"*">>
    /\ StoredList(row.proxy_nsg_config, "allowed_service_tags") = <<"Internet">>

====
